---- MODULE Spec2Model ----
(***************************************************************************)
(* A model of lapnet/hamiltonian.py: the local-energy evaluator, its three *)
(* kinetic-energy (Laplacian) algorithms, the dimension sampler and the    *)
(* Coulomb potential terms.                                                *)
(*                                                                         *)
(* Numbers are exact rationals <<n, d>> in lowest terms with d >= 0.  A    *)
(* zero denominator stands for the IEEE special values the code produces   *)
(* on a division by zero: <<1,0>> = +inf, <<-1,0>> = -inf, <<0,0>> = nan.  *)
(* Rounding is not modelled.  Vectors are sequences and the code's 0-based *)
(* index i is element i + 1; the distance arrays, whose rank matters, are  *)
(* records of a shape and the entries in row-major order.                  *)
(***************************************************************************)
EXTENDS Integers, Sequences, FiniteSets, TLC

VARIABLES
  ev,    \* the evaluator closure built by local_energy, or NoEv
  log,   \* the calls made on the evaluator so far, oldest first
  fn,    \* the function applied in a pure-function run, with its inputs
  out,   \* the number or index set that function returned
  vec,   \* the probe vectors get_random_vec returned
  lp     \* the position of _lapl_over_f's loop

vars == <<ev, log, fn, out, vec, lp>>

----------------------------------------------------------------------------
(* Exact arithmetic *)

Abs(n) == IF n < 0 THEN -n ELSE n

Sign(n) == IF n < 0 THEN -1 ELSE IF n > 0 THEN 1 ELSE 0

RECURSIVE Gcd(_, _)
Gcd(a, b) == IF b = 0 THEN a ELSE Gcd(b, a % b)

Rat(n, d) ==
  IF d = 0 THEN <<Sign(n), 0>>
  ELSE LET g == Gcd(Abs(n), Abs(d))
       IN  <<(Sign(d) * n) \div g, Abs(d) \div g>>

RInt(n) == <<n, 1>>

NaN == <<0, 0>>

IsFinite(x) == x[2] # 0

RAdd(x, y) ==
  IF x[2] = 0 /\ y[2] = 0 THEN (IF x[1] = y[1] THEN x ELSE NaN)
  ELSE IF x[2] = 0 THEN x
  ELSE IF y[2] = 0 THEN y
  ELSE Rat(x[1] * y[2] + y[1] * x[2], x[2] * y[2])

RMul(x, y) == Rat(x[1] * y[1], x[2] * y[2])

RDiv(x, y) == Rat(x[1] * y[2], x[2] * y[1])

RNeg(x) == <<-x[1], x[2]>>

RECURSIVE RSumTo(_, _)
RSumTo(s, n) == IF n = 0 THEN RInt(0) ELSE RAdd(RSumTo(s, n - 1), s[n])

\* jnp.sum of a one-dimensional array.
RSum(s) == RSumTo(s, Len(s))

\* jnp.sum of a two-dimensional array.
RSum2(m) == RSum([i \in 1..Len(m) |-> RSum(m[i])])

RECURSIVE ISumTo(_, _)
ISumTo(s, n) == IF n = 0 THEN 0 ELSE ISumTo(s, n - 1) + s[n]

ISum(s) == ISumTo(s, Len(s))

\* The exact square root of a perfect square (jnp.linalg.norm on the lattice
\* points the model draws).
ISqrt(n) == CHOOSE r \in 0..n : r * r = n

Dot(u, v) == ISum([i \in 1..Len(u) |-> u[i] * v[i]])

\* The array s with its entries computed: the same sequence.
Array(s) == SubSeq(s, 1, Len(s))

\* jnp.eye(n): row i + 1 is the basis vector e_i.
Eye(n) == [i \in 1..n |-> [j \in 1..n |-> IF i = j THEN 1 ELSE 0]]

\* Results of operations that may raise.
Ok(v) == [ok |-> TRUE, val |-> v, err |-> ""]

Raise(e) == [ok |-> FALSE, val |-> <<>>, err |-> e]

----------------------------------------------------------------------------
(* The wavefunction collaborator.  The code treats f as an opaque callable *)
(* returning (sign, log|f|) and differentiates it with JAX.  The model     *)
(* draws f from the family                                                 *)
(*   log|f|(<<a, q>>, x) = SUM_i (a x_i^2 + x_i^3) + q SUM_{i<j} x_i x_j   *)
(* (the cross term is written as q ((SUM_i x_i)^2 - SUM_i x_i^2) / 2)      *)
(* whose gradient and Hessian are written out below: the Hessian is not    *)
(* diagonal, and its diagonal changes with the index and with x.           *)

f(params, x) ==
  <<1, ISum([i \in 1..Len(x) |-> params[1] * x[i] * x[i] + x[i] * x[i] * x[i]])
       + params[2] * ((ISum(x) * ISum(x) - ISum([i \in 1..Len(x) |-> x[i] * x[i]])) \div 2)>>

\* log_abs_f = lambda *args, **kwargs: f(*args, **kwargs)[1]
log_abs_f(params, x) == f(params, x)[2]

\* jax.grad(f, argnums=1)(params, y): the gradient of log|f| in y.
grad_f(params, y) ==
  Array([i \in 1..Len(y) |->
     2 * params[1] * y[i] + 3 * y[i] * y[i] + params[2] * (ISum(y) - y[i])])

\* The Hessian of log|f| in y (what jax.linearize of grad_f, jet and the
\* forward Laplacian all differentiate).
hessian_f(params, y) ==
  [i \in 1..Len(y) |->
     [j \in 1..Len(y) |-> IF i = j THEN 2 * params[1] + 6 * y[i] ELSE params[2]]]

\* primal, dgrad_f = jax.linearize(grad_f_closure, data): the gradient at data
\* and the linear map dgrad_f, held as the Jacobian of grad_f (the Hessian).
linearize(params, data) ==
  [primal |-> grad_f(params, data), jac |-> hessian_f(params, data)]

\* dgrad_f(v): the Jacobian-vector product of grad_f at data, Hessian . v.
dgrad_f(lin, v) == Array([i \in 1..Len(v) |-> Dot(lin.jac[i], v)])

\* f_partial = partial(f, params), as jet and jax.grad see it at data.
f_partial(params, data) ==
  [params |-> params, data |-> data,
   VALUE |-> log_abs_f(params, data),
   GRAD  |-> grad_f(params, data)]

\* jet.jet(fun=f_partial, primals=(data,), series=((v, zeros),)): the primal
\* output and the output series <<first-order term, second-order term>>, the
\* series (data + t v) pushed through the operations of log|f|.  With a zero
\* second-order input term the second-order output is the second derivative
\* along v, v^T . Hessian . v:
\*   SUM_i (2 a + 6 x_i) v_i^2 + q ((SUM_i v_i)^2 - SUM_i v_i^2).
taylor_2(fp, v) ==
  <<fp.VALUE,
    <<Dot(fp.GRAD, v),
      ISum([i \in 1..Len(v) |-> (2 * fp.params[1] + 6 * fp.data[i]) * v[i] * v[i]])
        + fp.params[2] * (ISum(v) * ISum(v) - Dot(v, v))>>>>

\* f(params, LapTuple(data, is_input=True)): value, gradient and Laplacian
\* carried through one forward pass.
lap_tuple_f(params, data) ==
  [VALUE |-> log_abs_f(params, data),
   GRAD  |-> grad_f(params, data),
   LAP   |-> LET hess == hessian_f(params, data)
             IN  ISum([i \in 1..Len(data) |-> hess[i][i]])]

----------------------------------------------------------------------------
(* Random tokens.  A token is a sequence of naturals; jax.random draws are *)
(* deterministic functions of the token they are handed.                   *)

Seed(key) == ISum(key) + Len(key)

\* jax.random.split(key): two child tokens.  The file under study never calls
\* it; the definition states what a split would hand out.
Split(key) == <<Append(key, 0), Append(key, 1)>>

\* jax.random.permutation(key, n): a permutation of 0..n-1 fixed by the token.
permutation(key, n) ==
  LET r == Seed(key) % n
      rev == (Seed(key) \div n) % 2 = 1
  IN  Array([j \in 1..n |-> IF rev THEN (r + n - j) % n ELSE (r + j - 1) % n])

\* A draw with replacement, as replace=True would make it.
random_choice_with_replacement(key, n, k) ==
  IF n <= 0 THEN Raise("ValueError")
  ELSE Ok(Array([j \in 1..k |-> (Seed(key) * j) % n]))

\* jax.random.choice(key, n, shape=(k,), replace=False)
random_choice(key, n, k) ==
  IF n <= 0 THEN Raise("ValueError")
  ELSE IF k > n THEN Raise("ValueError")
  ELSE Ok(SubSeq(permutation(key, n), 1, k))

\* jnp.arange(n)
arange(n) == Array([j \in 1..n |-> j - 1])

N_SDGD_DIM == 16

get_sdgd_idx_set(key, dim, n_sdgd_dim) ==
  IF n_sdgd_dim # 0
  THEN random_choice(key, dim, n_sdgd_dim)
  ELSE Ok(arange(dim))

\* One entry of jax.random.normal, abstracted to an integer fixed by the token.
random_normal(key, r, c) == ((Seed(key) + 2 * r + 3 * c) % 3) - 1

\* One entry of jax.random.randint(key, minval=0, maxval=2).
random_bit(key, r, c) == (Seed(key) + r + r * c) % 2

N_SDGD_DIM_VEC == 8

N_HTE_VEC == 0

get_random_vec(key, idx_set, dim, n_sdgd_dim, method, n_hte_vec) ==
  LET d == IF n_sdgd_dim # 0 THEN n_sdgd_dim ELSE dim
  IN  IF method = "normal"
      THEN Ok(Array([r \in 1..n_hte_vec |-> Array([c \in 1..d |-> random_normal(key, r, c)])]))
      ELSE IF method = "unit"
      THEN Ok(Array([r \in 1..n_hte_vec |-> Array([c \in 1..d |-> 2 * random_bit(key, r, c) - 1])]))
      ELSE IF method = "sdgd"
      THEN Ok(Array([r \in 1..Len(idx_set) |->
                 Array([c \in 1..dim |-> Eye(dim)[idx_set[r] + 1][c] * dim])]))
      ELSE Raise("ValueError")

----------------------------------------------------------------------------
(* local_kinetic_energy: the three Laplacian algorithms *)

\* Lines 131-138 of _randomized_lapl_over_f: the vectorised second-order
\* expansion along every probe and the mean of the second-order terms.
trace_estimate(params, data, rand_sub_vec) ==
  LET fp == f_partial(params, data)
      hvps == Array([r \in 1..Len(rand_sub_vec) |-> taylor_2(fp, rand_sub_vec[r])[2][2]])
  IN  Rat(ISum(hvps), Len(hvps))

\* Lines 131-140 of _randomized_lapl_over_f, from the probes to the result.
randomized_estimate(params, data, rand_sub_vec) ==
  LET trace_est == trace_estimate(params, data, rand_sub_vec)
      f_x == grad_f(params, data)
  IN  RMul(Rat(-1, 2), RAdd(trace_est, RInt(Dot(f_x, f_x))))

\* A token that also depends on how many calls were made before.
call_count_key(rng) == Append(rng, Len(log))

\* The token each of the two sampler calls of _randomized_lapl_over_f is handed.
idx_set_key(rng) == rng

random_vec_key(rng) == rng

\* _randomized_lapl_over_f with the sample size k that get_sdgd_idx_set receives
\* written as a parameter.  Besides the result it reports what the call did:
\* the tokens handed out, the index set and the probes (<<>> when not reached).
randomized_with(params, data, rng, k) ==
  LET dim == Len(data)
      idx_set == get_sdgd_idx_set(idx_set_key(rng), dim, k)
      rand_sub_vec == get_random_vec(random_vec_key(rng), idx_set.val, dim,
                                     N_SDGD_DIM_VEC, "sdgd", N_HTE_VEC)
  IN  IF ~idx_set.ok
      THEN [res |-> idx_set, idx_key |-> idx_set_key(rng), vec_key |-> <<>>,
            idx_set |-> <<>>, probes |-> <<>>]
      ELSE IF ~rand_sub_vec.ok
      THEN [res |-> rand_sub_vec, idx_key |-> idx_set_key(rng),
            vec_key |-> random_vec_key(rng), idx_set |-> idx_set.val, probes |-> <<>>]
      ELSE [res |-> Ok(randomized_estimate(params, data, rand_sub_vec.val)),
            idx_key |-> idx_set_key(rng), vec_key |-> random_vec_key(rng),
            idx_set |-> idx_set.val, probes |-> rand_sub_vec.val]

randomized_lapl_over_f(params, data, rng) ==
  randomized_with(params, data, rng, N_SDGD_DIM)

NoDraw(res) ==
  [res |-> res, idx_key |-> <<>>, vec_key |-> <<>>, idx_set |-> <<>>, probes |-> <<>>]

forward_lapl_over_f(params, data, rng) ==
  LET output == lap_tuple_f(params, data)
  IN  NoDraw(Ok(RAdd(RMul(Rat(-1, 2), RInt(output.LAP)),
                     RMul(Rat(-1, 2), RInt(Dot(output.GRAD, output.GRAD))))))

\* A scan body that emits the entry next to the diagonal one.
scan_body_off_diagonal(lin, n, i) ==
  <<i + 1, dgrad_f(lin, Eye(n)[i + 1])[((i + 1) % n) + 1]>>

\* The body of the lax.scan in _lapl_over_f: carry i, emit dgrad_f(eye[i])[i].
scan_body(lin, n, i) == <<i + 1, dgrad_f(lin, Eye(n)[i + 1])[i + 1]>>

\* The body of the lax.fori_loop in _lapl_over_f.
fori_body(lin, n, i, val) == val + dgrad_f(lin, Eye(n)[i + 1])[i + 1]

\* lax.scan(body, init, None, length=n): the emitted values, in order.
RECURSIVE lax_scan(_, _, _, _)
lax_scan(lin, n, carry, length) ==
  IF length = 0 THEN <<>>
  ELSE LET step == scan_body(lin, n, carry)
       IN  <<step[2]>> \o lax_scan(lin, n, step[1], length - 1)

\* lax.fori_loop(lower, upper, body, init)
RECURSIVE lax_fori_loop(_, _, _, _, _)
lax_fori_loop(lin, n, lower, upper, val) ==
  IF lower >= upper THEN val
  ELSE lax_fori_loop(lin, n, lower + 1, upper, fori_body(lin, n, lower, val))

\* The last two statements of _lapl_over_f, from the loop's sum.
lapl_result(lin, total) ==
  RAdd(RMul(Rat(-1, 2), RInt(total)),
       RMul(Rat(-1, 2), RInt(Dot(lin.primal, lin.primal))))

lapl_over_f(params, data, rng, use_scan) ==
  LET n == Len(data)
      lin == linearize(params, data)
  IN  IF use_scan
      THEN NoDraw(Ok(lapl_result(lin, ISum(lax_scan(lin, n, 0, n)))))
      ELSE NoDraw(Ok(lapl_result(lin, lax_fori_loop(lin, n, 0, n, 0))))

\* What local_kinetic_energy returns: the name of the inner function.
local_kinetic_energy(use_scan, forward_laplacian) ==
  IF forward_laplacian THEN "_forward_lapl_over_f" ELSE "_randomized_lapl_over_f"

\* A call of the function local_kinetic_energy returned; use_scan is the flag
\* its closure holds.
ke_call(ke, use_scan, params, data, rng) ==
  IF ke = "_forward_lapl_over_f" THEN forward_lapl_over_f(params, data, rng)
  ELSE IF ke = "_randomized_lapl_over_f" THEN randomized_lapl_over_f(params, data, rng)
  ELSE lapl_over_f(params, data, rng, use_scan)

----------------------------------------------------------------------------
(* Potential energy.  An array is its shape and its entries in row-major   *)
(* order.                                                                  *)

Arr(shape, a) == [shape |-> shape, a |-> a]

\* x[i, j] of a two-dimensional array, 1-based.
At2(x, i, j) == x.a[(i - 1) * x.shape[2] + j]

\* x[i, j, c] of a three-dimensional array, 1-based.
At3(x, i, j, c) == x.a[((i - 1) * x.shape[2] + (j - 1)) * x.shape[3] + c]

\* x[..., 0]: index 0 on the last axis, whatever the rank; an IndexError when
\* that axis is empty.
last0(x) ==
  IF x.shape[Len(x.shape)] = 0 THEN Raise("IndexError")
  ELSE IF Len(x.shape) = 2
  THEN Ok(Arr(<<x.shape[1]>>, Array([i \in 1..x.shape[1] |-> At2(x, i, 1)])))
  ELSE Ok(Arr(<<x.shape[1], x.shape[2]>>,
              Array([q \in 1..(x.shape[1] * x.shape[2]) |-> x.a[(q - 1) * x.shape[3] + 1]])))

\* NumPy broadcasting of two axis lengths.
Compatible(m, n) == m = n \/ m = 1 \/ n = 1

BroadLen(m, n) == IF m = 1 THEN n ELSE m

\* u / v for one-dimensional u and v, broadcast.
BDiv1(u, v) ==
  Array([i \in 1..BroadLen(Len(u), Len(v)) |->
     RDiv(RInt(u[IF Len(u) = 1 THEN 1 ELSE i]), RInt(v[IF Len(v) = 1 THEN 1 ELSE i]))])

\* The whole matrix kept: the full symmetric sum.
triu_whole_matrix(m, k) == m

\* jnp.triu(m, k): entries below the k-th diagonal replaced by zero.
triu(m, k) ==
  Array([i \in 1..Len(m) |-> Array([j \in 1..Len(m[i]) |-> IF j - i >= k THEN m[i][j] ELSE RInt(0)])])

potential_electron_electron(r_ee) ==
  LET d == last0(r_ee)
      inv == Array([i \in 1..d.val.shape[1] |-> Array([j \in 1..d.val.shape[2] |->
                RDiv(RInt(1), RInt(At2(d.val, i, j)))])])
  IN  IF ~d.ok THEN d
      ELSE Ok(RSum2(triu(inv, 1)))

potential_electron_nuclear(charges, r_ae) ==
  LET d == last0(r_ae)
      c == Len(charges)
  IN  IF ~d.ok THEN d
      ELSE IF Len(d.val.shape) = 1
      THEN IF ~Compatible(c, d.val.shape[1]) THEN Raise("TypeError")
           ELSE Ok(RNeg(RSum(BDiv1(charges, d.val.a))))
      ELSE IF ~Compatible(c, d.val.shape[2]) THEN Raise("TypeError")
           ELSE Ok(RNeg(RSum2([i \in 1..d.val.shape[1] |->
                                 BDiv1(charges, Array([j \in 1..d.val.shape[2] |->
                                                   At2(d.val, i, j)]))])))

\* jnp.linalg.norm(atoms[None, ...] - atoms[:, None], axis=-1)
pair_distances(atoms) ==
  Array([i \in 1..Len(atoms) |-> Array([j \in 1..Len(atoms) |->
     ISqrt(ISum([c \in 1..Len(atoms[i]) |->
                   (atoms[j][c] - atoms[i][c]) * (atoms[j][c] - atoms[i][c])]))])])

potential_nuclear_nuclear(charges, atoms) ==
  LET r_aa == pair_distances(atoms)
      c == Len(charges)
      p == Len(atoms)
      n == BroadLen(c, p)
      qq == Array([i \in 1..c |-> Array([j \in 1..c |-> charges[j] * charges[i]])])
      quot == Array([i \in 1..n |-> Array([j \in 1..n |->
                 RDiv(RInt(qq[IF c = 1 THEN 1 ELSE i][IF c = 1 THEN 1 ELSE j]),
                      RInt(r_aa[IF p = 1 THEN 1 ELSE i][IF p = 1 THEN 1 ELSE j]))])])
  IN  IF ~Compatible(c, p) THEN Raise("TypeError")
      ELSE Ok(RSum2(triu(quot, 1)))

potential_energy(r_ae, r_ee, atoms, charges) ==
  LET ee == potential_electron_electron(r_ee)
      en == potential_electron_nuclear(charges, r_ae)
      nn == potential_nuclear_nuclear(charges, atoms)
  IN  IF ~ee.ok THEN ee
      ELSE IF ~en.ok THEN en
      ELSE IF ~nn.ok THEN nn
      ELSE Ok(RAdd(RAdd(ee.val, en.val), nn.val))

----------------------------------------------------------------------------
(* local_energy: the evaluator and a call of it *)

\* networks.construct_input_features(data, atoms), which this file imports: the
\* electron-atom distances as an N x M matrix and the electron-electron
\* distances as an N x N x 1 array; a configuration whose length is not a
\* multiple of three is an error.
construct_input_features(data, atoms) ==
  LET n == Len(data) \div 3
      m == Len(atoms)
      pos == Array([i \in 1..n |-> <<data[3 * i - 2], data[3 * i - 1], data[3 * i]>>])
      dist(u, v) == ISqrt(ISum([c \in 1..3 |-> (u[c] - v[c]) * (u[c] - v[c])]))
  IN  IF Len(data) % 3 # 0 THEN Raise("ValueError")
      ELSE Ok([r_ae |-> Arr(<<n, m>>,
                           Array([q \in 1..(n * m) |->
                              dist(pos[((q - 1) \div m) + 1], atoms[((q - 1) % m) + 1])])),
               r_ee |-> Arr(<<n, n, 1>>,
                           Array([q \in 1..(n * n) |->
                              dist(pos[((q - 1) \div n) + 1], pos[((q - 1) % n) + 1])]))])

\* The kinetic term alone.
kinetic_only(potential, kinetic) == kinetic

\* return potential + kinetic
total_energy(potential, kinetic) == RAdd(potential, kinetic)

\* What local_energy returns: the closure _e_l with the atoms, the charges and
\* the kinetic-energy function it captured.  The two flags are kept beside it.
local_energy(atoms, charges, nspins, use_scan, forward_laplacian) ==
  [built |-> TRUE, atoms |-> atoms, charges |-> charges,
   use_scan |-> use_scan, forward_laplacian |-> forward_laplacian,
   ke |-> local_kinetic_energy(use_scan, forward_laplacian)]

\* What a call of _e_l reports: its result, the kinetic term, and what the
\* kinetic term drew on the way.
Report(res, kinetic) ==
  [res |-> res, kin |-> kinetic.res,
   idx_key |-> kinetic.idx_key, vec_key |-> kinetic.vec_key,
   idx_set |-> kinetic.idx_set, probes |-> kinetic.probes]

\* _e_l(params, key, data) of the evaluator e.
e_l(e, params, key, data) ==
  LET feat == construct_input_features(data, e.atoms)
      potential == potential_energy(feat.val.r_ae, feat.val.r_ee, e.atoms, e.charges)
      kinetic == ke_call(e.ke, e.use_scan, params, data, key)
  IN  IF ~feat.ok THEN Report(feat, NoDraw(Raise("")))
      ELSE IF ~potential.ok THEN Report(potential, NoDraw(Raise("")))
      ELSE IF ~kinetic.res.ok THEN Report(kinetic.res, kinetic)
      ELSE Report(Ok(total_energy(potential.val, kinetic.res.val)), kinetic)

----------------------------------------------------------------------------
(* Bounds and input sets *)

MaxKey == 2

MaxDim == 4

MaxElectrons == 2

MaxAtoms == 2

MaxChan == 2

MaxCalls == 2

Keys == {<<s>> : s \in 0..MaxKey}

\* Wavefunction parameters <<a, q>>.
Params == {<<1, 1>>, <<2, 0>>}

Coords == {0, 1, 2}

Configurations(D) == [1..D -> Coords]

Distances == {1, 2}

Charges == {1, 2}

\* Atom positions with whole-number pairwise distances (3, 4, 5).
Lattice == {<<0, 0, 0>>, <<3, 0, 0>>, <<0, 4, 0>>}

\* Symmetric electron-electron distances with a zero diagonal and c channels;
\* only channel 0 is a distance.
EEArrays(n, c) ==
  {Arr(<<n, n, c>>,
       Array([q \in 1..(n * n * c) |->
          LET ch == ((q - 1) % c) + 1
              j == (((q - 1) \div c) % n) + 1
              i == ((q - 1) \div (c * n)) + 1
          IN  IF ch > 1 THEN 7
              ELSE IF i = j THEN 0
              ELSE IF i < j THEN u[<<i, j>>] ELSE u[<<j, i>>]])) :
     u \in [{pr \in (1..n) \X (1..n) : pr[1] < pr[2]} -> Distances]}

\* Electron-atom distance matrices of shape (n, m), as documented.
AEMatrices(n, m) == {Arr(<<n, m>>, a) : a \in [1..(n * m) -> Distances]}

\* The same distances with a trailing channel axis of length one.
Channelled(x) == Arr(<<x.shape[1], x.shape[2], 1>>, x.a)

\* Atoms on the x axis, three apart; charges 1, 2, ...
AtomLine(m) == Array([j \in 1..m |-> <<3 * (j - 1), 0, 0>>])

ChargeLine(c) == Array([j \in 1..c |-> j])

\* Atomic systems as <<number of positions, number of charges>>: one atom, two
\* atoms, and two positions with a single charge.
Systems == {<<1, 1>>, <<2, 2>>, <<2, 1>>}

\* Tokens handed to the evaluator.
Tokens == {<<0>>, <<1>>}

\* Electron configurations on the x axis, off the atoms: one electron (D = 3)
\* and six electrons (D = 18).
OneElectron == <<1, 0, 0>>

SixElectrons == <<1, 0, 0, 2, 0, 0, 4, 0, 0, 5, 0, 0, 7, 0, 0, 8, 0, 0>>

Walkers == {OneElectron, SixElectrons}

----------------------------------------------------------------------------
(* The evaluator: built once, then called any number of times *)

NoEv ==
  [built |-> FALSE, atoms |-> <<>>, charges |-> <<>>,
   use_scan |-> FALSE, forward_laplacian |-> FALSE, ke |-> "none"]

NoLoop ==
  [pc |-> "idle", use_scan |-> FALSE, params |-> <<>>, data |-> <<>>,
   i |-> 0, val |-> 0, ys |-> <<>>, visited |-> <<>>, result |-> <<>>]

NoFn == [name |-> "none", args |-> <<>>]

Init ==
  /\ ev = NoEv
  /\ log = <<>>
  /\ fn = NoFn
  /\ out = Raise("")
  /\ vec = Raise("")
  /\ lp = NoLoop

\* local_energy(f, atoms, charges, nspins, use_scan, forward_laplacian)
Construct ==
  /\ ~ev.built
  /\ \E sys \in Systems, use_scan \in BOOLEAN, forward_laplacian \in BOOLEAN :
       ev' = local_energy(AtomLine(sys[1]), ChargeLine(sys[2]), <<1, 0>>,
                          use_scan, forward_laplacian)
  /\ UNCHANGED <<log, fn, out, vec, lp>>

\* The record of one call: its inputs, the kinetic-energy function it used,
\* and what e_l reported.
Entry(params, key, data, ke, r) ==
  [params |-> params, key |-> key, data |-> data, ke |-> ke,
   res |-> r.res, kin |-> r.kin,
   idx_key |-> r.idx_key, vec_key |-> r.vec_key,
   idx_set |-> r.idx_set, probes |-> r.probes]

\* e_l(params, key, data) on the evaluator built before.
Call ==
  /\ ev.built
  /\ Len(log) < MaxCalls
  /\ \E params \in Params, key \in Tokens, data \in Walkers :
       log' = Append(log, Entry(params, key, data, ev.ke, e_l(ev, params, key, data)))
  /\ UNCHANGED <<ev, fn, out, vec, lp>>

Next ==
  \/ Construct
  \/ Call

Spec == Init /\ [][Next]_vars

----------------------------------------------------------------------------
(* _lapl_over_f, one loop iteration at a time *)

LoopStart ==
  /\ lp.pc = "idle"
  /\ \E params \in Params, D \in 0..MaxDim, use_scan \in BOOLEAN :
       \E data \in Configurations(D) :
         lp' = [pc |-> "loop", use_scan |-> use_scan, params |-> params,
                data |-> data, i |-> 0, val |-> 0, ys |-> <<>>,
                visited |-> <<>>, result |-> <<>>]
  /\ UNCHANGED <<ev, log, fn, out, vec>>

\* One iteration of lax.scan: the carry advances, one value is emitted.
ScanStep ==
  /\ lp.pc = "loop"
  /\ lp.use_scan
  /\ Len(lp.ys) < Len(lp.data)
  /\ lp' = [lp EXCEPT
              !.i = scan_body(linearize(lp.params, lp.data), Len(lp.data), lp.i)[1],
              !.ys = Append(@, scan_body(linearize(lp.params, lp.data),
                                         Len(lp.data), lp.i)[2]),
              !.visited = Append(@, lp.i)]
  /\ UNCHANGED <<ev, log, fn, out, vec>>

\* One iteration of lax.fori_loop: the running sum takes one more entry.
ForiStep ==
  /\ lp.pc = "loop"
  /\ ~lp.use_scan
  /\ lp.i < Len(lp.data)
  /\ lp' = [lp EXCEPT
              !.val = fori_body(linearize(lp.params, lp.data), Len(lp.data), lp.i, @),
              !.i = @ + 1,
              !.visited = Append(@, lp.i)]
  /\ UNCHANGED <<ev, log, fn, out, vec>>

\* After the loop: the scan's output is summed, and the result is returned.
LoopReturn ==
  /\ lp.pc = "loop"
  /\ IF lp.use_scan THEN Len(lp.ys) = Len(lp.data) ELSE lp.i >= Len(lp.data)
  /\ lp' = [lp EXCEPT
              !.pc = "done",
              !.result = lapl_result(linearize(lp.params, lp.data),
                                     IF lp.use_scan THEN ISum(lp.ys) ELSE lp.val)]
  /\ UNCHANGED <<ev, log, fn, out, vec>>

NextLoop ==
  \/ LoopStart
  \/ ScanStep
  \/ ForiStep
  \/ LoopReturn

SpecLoop == Init /\ [][NextLoop]_vars

----------------------------------------------------------------------------
(* Pure-function runs: each run applies one function of the file once, to   *)
(* inputs drawn from the sets above, and records the inputs and the result. *)

Applied(name, args, result) ==
  /\ fn' = [name |-> name, args |-> args]
  /\ out' = result
  /\ UNCHANGED <<ev, log, vec, lp>>

ApplyGetSdgdIdxSet ==
  /\ fn = NoFn
  /\ \E key \in Keys, dim \in 1..MaxDim, k \in (0..(MaxDim + 1)) \cup {N_SDGD_DIM} :
    Applied("get_sdgd_idx_set", [key |-> key, dim |-> dim, k |-> k],
            get_sdgd_idx_set(key, dim, k))

ApplyGetRandomVec ==
  /\ fn = NoFn
  /\ \E key \in Keys, dim \in 1..MaxDim, k \in 0..1,
        method \in {"normal", "unit", "sdgd", "other"}, n \in 0..2 :
       /\ fn' = [name |-> "get_random_vec",
                 args |-> [key |-> key, dim |-> dim, k |-> k * dim,
                           method |-> method, n |-> n]]
       /\ vec' = get_random_vec(key, get_sdgd_idx_set(key, dim, k * dim).val, dim,
                                k * dim, method, n)
       /\ UNCHANGED <<ev, log, out, lp>>

ApplyRandomized ==
  /\ fn = NoFn
  /\ \E key \in Keys, dim \in 1..MaxDim, k \in 0..MaxDim, params \in Params :
    \E data \in Configurations(dim) :
      Applied("randomized",
              [key |-> key, k |-> k, params |-> params, data |-> data],
              randomized_with(params, data, key, k).res)

ApplyElectronElectron ==
  /\ fn = NoFn
  /\ \E n \in 0..(MaxElectrons + 1), c \in 1..MaxChan :
    \E r_ee \in EEArrays(n, c) :
      Applied("potential_electron_electron", [r_ee |-> r_ee],
              potential_electron_electron(r_ee))

ApplyElectronNuclear ==
  /\ fn = NoFn
  /\ \E n \in 1..MaxElectrons, m \in 1..MaxAtoms :
    \E charges \in [1..m -> Charges], x \in AEMatrices(n, m), rank \in {2, 3} :
      LET r_ae == IF rank = 2 THEN x ELSE Channelled(x)
      IN  Applied("potential_electron_nuclear", [charges |-> charges, r_ae |-> r_ae],
                  potential_electron_nuclear(charges, r_ae))

ApplyNuclearNuclear ==
  /\ fn = NoFn
  /\ \E m \in 0..(MaxAtoms + 1) :
    \E charges \in [1..m -> Charges \cup {-1}], atoms \in [1..m -> Lattice] :
      Applied("potential_nuclear_nuclear", [charges |-> charges, atoms |-> atoms],
              potential_nuclear_nuclear(charges, atoms))

NextFn ==
  \/ ApplyGetSdgdIdxSet
  \/ ApplyGetRandomVec
  \/ ApplyRandomized
  \/ ApplyElectronElectron
  \/ ApplyElectronNuclear
  \/ ApplyNuclearNuclear

SpecFn == Init /\ [][NextFn]_vars

----------------------------------------------------------------------------
(* Claims about the pure functions, checked under SpecFn *)

\* The increasing sequence of the elements of a set of integers.
RECURSIVE SortedSeq(_)
SortedSeq(S) ==
  IF S = {} THEN <<>>
  ELSE LET lo == CHOOSE x \in S : \A y \in S : x <= y
       IN  <<lo>> \o SortedSeq(S \ {lo})

\* The sum of term[p] over the pairs p of a set.
RECURSIVE RSumPairs(_, _)
RSumPairs(pairs, term) ==
  IF pairs = {} THEN RInt(0)
  ELSE LET p == CHOOSE p \in pairs : TRUE
       IN  RAdd(term[p], RSumPairs(pairs \ {p}, term))

UpperPairs(n) == {p \in (1..n) \X (1..n) : p[1] < p[2]}

AllPairs(n, m) == (1..n) \X (1..m)

HessianTrace(params, data) ==
  ISum([i \in 1..Len(data) |-> hessian_f(params, data)[i][i]])

\* The sdgd trace estimate on the index set S.
EstimateOn(params, data, S) ==
  trace_estimate(params, data,
                 get_random_vec(<<0>>, SortedSeq(S), Len(data),
                                N_SDGD_DIM_VEC, "sdgd", N_HTE_VEC).val)

RECURSIVE SumOfEstimates(_, _, _)
SumOfEstimates(sets, params, data) ==
  IF sets = {} THEN RInt(0)
  ELSE LET S == CHOOSE S \in sets : TRUE
       IN  RAdd(EstimateOn(params, data, S), SumOfEstimates(sets \ {S}, params, data))

\* The mean of the sdgd trace estimate over all index sets of k out of D indices.
MeanOverIndexSets(params, data, k) ==
  LET sets == {S \in SUBSET (0..(Len(data) - 1)) : Cardinality(S) = k}
  IN  RDiv(SumOfEstimates(sets, params, data), RInt(Cardinality(sets)))

\* C3: in "sdgd" mode the trace estimate is unbiased: for every D, every k with
\* 1 <= k <= D and every Hessian, the mean over all k-element index sets of the
\* estimate (the mean over the probes D*e_i of the second-order term) is the sum
\* of the D diagonal Hessian entries; and when the index set covers all D
\* dimensions (k = D or k = 0) the stochastic kinetic energy is the exact-loop one.
C3_SdgdUnbiased ==
  fn.name = "randomized" =>
    LET D == Len(fn.args.data)
        k == fn.args.k
    IN  /\ (1 <= k /\ k <= D) =>
             MeanOverIndexSets(fn.args.params, fn.args.data, k)
               = RInt(HessianTrace(fn.args.params, fn.args.data))
        /\ (k = D \/ k = 0) =>
             out = lapl_over_f(fn.args.params, fn.args.data, fn.args.key, FALSE).res

Distinct(s) == \A i, j \in 1..Len(s) : i # j => s[i] # s[j]

InRange(s, dim) == \A i \in 1..Len(s) : 0 <= s[i] /\ s[i] < dim

\* C4 as stated: get_sdgd_idx_set, for every D and every k > 0, returns exactly
\* k pairwise distinct indices in [0, D); for k = 0 the range 0, 1, ..., D-1.
C4_IdxSetEveryK ==
  fn.name = "get_sdgd_idx_set" =>
    /\ fn.args.k > 0 =>
         /\ out.ok
         /\ Len(out.val) = fn.args.k
         /\ Distinct(out.val)
         /\ InRange(out.val, fn.args.dim)
    /\ fn.args.k = 0 => out = Ok(arange(fn.args.dim))

\* C4 amended: for every D and every k with 0 < k <= D, get_sdgd_idx_set returns
\* exactly k pairwise distinct indices in [0, D); for k = 0 it returns the range
\* 0, 1, ..., D-1; for k > D it raises and returns no index set.
C4_IdxSetWithinD ==
  fn.name = "get_sdgd_idx_set" =>
    /\ (0 < fn.args.k /\ fn.args.k <= fn.args.dim) =>
         /\ out.ok
         /\ Len(out.val) = fn.args.k
         /\ Distinct(out.val)
         /\ InRange(out.val, fn.args.dim)
    /\ fn.args.k = 0 => out = Ok(arange(fn.args.dim))
    /\ fn.args.k > fn.args.dim => ~out.ok

C4_Witness ==
  /\ fn.name = "get_sdgd_idx_set"
  /\ 1 < fn.args.k
  /\ fn.args.k < fn.args.dim
  /\ out.ok
  /\ Len(out.val) = fn.args.k

\* C5: potential_electron_nuclear, given the charges of M atoms and an N x M
\* distance matrix r_ae, returns minus the sum over every pair (electron i, atom
\* j) of charge(j) / r_ae(i, j).
C5_ElectronNuclearAllPairs ==
  (fn.name = "potential_electron_nuclear" /\ Len(fn.args.r_ae.shape) = 2) =>
    LET n == fn.args.r_ae.shape[1]
        m == fn.args.r_ae.shape[2]
        term == [p \in AllPairs(n, m) |->
                   RDiv(RInt(fn.args.charges[p[2]]), RInt(At2(fn.args.r_ae, p[1], p[2])))]
    IN  out = Ok(RNeg(RSumPairs(AllPairs(n, m), term)))

\* C6: the electron-electron potential is the sum over i < j of 1 / r_ee(i, j, 0)
\* and the nuclear-nuclear potential the sum over i < j of
\* charge(i) charge(j) / r_aa(i, j): no diagonal entry and no pair twice, for
\* every number of electrons and atoms (0 and 1 give 0).
C6_UpperTriangularPairs ==
  /\ fn.name = "potential_electron_electron" =>
       LET n == fn.args.r_ee.shape[1]
           term == [p \in UpperPairs(n) |->
                      RDiv(RInt(1), RInt(At3(fn.args.r_ee, p[1], p[2], 1)))]
       IN  out = Ok(RSumPairs(UpperPairs(n), term))
  /\ fn.name = "potential_nuclear_nuclear" =>
       LET m == Len(fn.args.atoms)
           r_aa == pair_distances(fn.args.atoms)
           term == [p \in UpperPairs(m) |->
                      RDiv(RInt(fn.args.charges[p[1]] * fn.args.charges[p[2]]),
                           RInt(r_aa[p[1]][p[2]]))]
       IN  out = Ok(RSumPairs(UpperPairs(m), term))

C6_Witness ==
  /\ fn.name = "potential_electron_electron"
  /\ fn.args.r_ee.shape[1] = 3
  /\ out.ok
  /\ IsFinite(out.val)
  /\ out.val # RInt(0)

----------------------------------------------------------------------------
(* Claims about the evaluator, checked under Spec *)

\* The kinetic term of a call, by the algorithm the construction flag names.
KineticBy(forward_laplacian, params, data, key) ==
  IF forward_laplacian
  THEN forward_lapl_over_f(params, data, key).res
  ELSE randomized_lapl_over_f(params, data, key).res

\* C1: for an evaluator built once, every call in any sequence of calls returns
\* potential energy + kinetic energy of that call's own inputs, computed with
\* the algorithm chosen at construction: the result does not depend on earlier
\* calls and the algorithm is the same in every call.
C1_StatelessEvaluator ==
  \A i \in 1..Len(log) :
    LET c == log[i]
        feat == construct_input_features(c.data, ev.atoms)
        pot == potential_energy(feat.val.r_ae, feat.val.r_ee, ev.atoms, ev.charges)
        kin == KineticBy(ev.forward_laplacian, c.params, c.data, c.key)
    IN  /\ c.ke = ev.ke
        /\ c.res.ok <=> (feat.ok /\ pot.ok /\ kin.ok)
        /\ c.res.ok => c.res.val = RAdd(pot.val, kin.val)

C1_Witness ==
  /\ Len(log) = 2
  /\ log[1].res.ok
  /\ log[2].res.ok
  /\ log[1].params # log[2].params
  /\ log[1].data # log[2].data
  /\ log[1].key # log[2].key
  /\ log[1].res # log[2].res

Algorithms == {"_lapl_over_f", "_randomized_lapl_over_f", "_forward_lapl_over_f"}

\* C2: each of the three algorithms (exact-loop, stochastic, forward-propagated)
\* is selectable at construction: for each there is a setting of the flags
\* (forward_laplacian, use_scan) for which the evaluator built from the same
\* atomic system computes the kinetic term with that algorithm.
C2_EveryAlgorithmSelectable ==
  ev.built =>
    \A alg \in Algorithms :
      \E use_scan \in BOOLEAN, forward_laplacian \in BOOLEAN :
        local_energy(ev.atoms, ev.charges, <<1, 0>>, use_scan, forward_laplacian).ke = alg

\* C7: within one call of the stochastic estimator the token is split: the token
\* handed to the index-set draw and the token handed to the probe-vector
\* construction are distinct child tokens of the call's token.
C7_DistinctChildTokens ==
  \A i \in 1..Len(log) :
    (log[i].ke = "_randomized_lapl_over_f" /\ log[i].kin.ok) =>
      /\ log[i].idx_key # log[i].vec_key
      /\ log[i].idx_key \in {Split(log[i].key)[1], Split(log[i].key)[2]}
      /\ log[i].vec_key \in {Split(log[i].key)[1], Split(log[i].key)[2]}

\* C8: an atomic system whose positions and charges differ in length is an
\* error: no call on an evaluator built from it returns a local-energy value.
C8_MismatchIsError ==
  (ev.built /\ Len(ev.atoms) # Len(ev.charges)) =>
    \A i \in 1..Len(log) : ~log[i].res.ok

----------------------------------------------------------------------------
(* Claims about _lapl_over_f, checked under SpecLoop *)

\* C10: in _lapl_over_f the two iteration disciplines agree: for every dimension
\* D and every Hessian, the fori_loop accumulation and the scan-then-sum both
\* visit each index 0..D-1 exactly once, in order, take the i-th component of
\* the Jacobian-vector product along e_i, and return
\* -1/2 (sum of the D diagonal Hessian entries) - 1/2 |grad|^2.
C10_DisciplinesAgree ==
  lp.pc = "done" =>
    LET g == grad_f(lp.params, lp.data)
    IN  /\ lp.visited = arange(Len(lp.data))
        /\ lp.result = RAdd(RMul(Rat(-1, 2), RInt(HessianTrace(lp.params, lp.data))),
                            RMul(Rat(-1, 2), RInt(Dot(g, g))))
        /\ lp.result = lapl_over_f(lp.params, lp.data, <<>>, ~lp.use_scan).res.val

C10_Witness ==
  /\ lp.pc = "done"
  /\ lp.use_scan
  /\ Len(lp.data) >= 3
  /\ lp.params[2] # 0
  /\ Len(lp.visited) = Len(lp.data)
  /\ lp.result # RInt(0)

====
